---- MODULE Spec2Model ----
(***************************************************************************)
(* Model of the Amazon Books dashboard's batch pipeline (dataprocessing.py) *)
(* and of the recomputation gate of main.py.                                *)
(*                                                                          *)
(* Tables are sequences of records (a DataFrame's rows, in order).  A SQL   *)
(* value that may be NULL is a sequence of length at most one: Null is <<>> *)
(* and the value v is <<v>>.  A string that the code takes apart (the       *)
(* publisher_date column) is a sequence of tokens.  The page_count column   *)
(* is carried with one value; text columns the queries never read are left  *)
(* out of the rows.                                                         *)
(***************************************************************************)
EXTENDS Integers, Sequences, FiniteSets, TLC

\* ------------------------------------------------------------------------
\* Bounds of the model
\* ------------------------------------------------------------------------
MaxRows == 2

MaxReviews == 2

MaxRuns == 2

MaxDeletes == 1

\* authors of the dataset the Top 10 Authors chart is drawn from
MaxAuthors == 11

\* ------------------------------------------------------------------------
\* SQL values
\* ------------------------------------------------------------------------
Null == <<>>

Val(x) == <<x>>

IsNull(v) == v = Null

RECURSIVE SumF(_, _)
SumF(f, S) ==
    IF S = {} THEN 0
    ELSE LET x == CHOOSE y \in S : TRUE IN f[x] + SumF(f, S \ {x})

\* ------------------------------------------------------------------------
\* Date normalization (dataprocessing.py, processed_metadata query)
\* ------------------------------------------------------------------------
MonthNumber == [January |-> 1, February |-> 2, March |-> 3]

DayNumber == [d \in {"1", "5", "30"} |-> IF d = "1" THEN 1 ELSE IF d = "5" THEN 5 ELSE 30]

YearNumber == [y \in {"2020", "2021"} |-> IF y = "2020" THEN 2020 ELSE 2021]

DaysInMonth(m, y) ==
    IF m = 2 THEN (IF y % 4 = 0 /\ (y % 100 # 0 \/ y % 400 = 0) THEN 29 ELSE 28)
    ELSE IF m \in {4, 6, 9, 11} THEN 30 ELSE 31

\* strpos(s, '(') > 0
HasParen(s) == \E i \in 1..Len(s) : s[i] = "("

\* split(s, '(')[-1]: the text after the last '(' (the whole text without one)
SegmentAfterFirstParen(s) ==
    LET opens == {i \in 1..Len(s) : s[i] = "("}
        first == IF opens = {} THEN 0 ELSE CHOOSE i \in opens : \A j \in opens : i <= j
    IN SubSeq(s, first + 1, Len(s))

LastSegment(s) ==
    LET opens == {i \in 1..Len(s) : s[i] = "("}
        last == IF opens = {} THEN 0 ELSE CHOOSE i \in opens : \A j \in opens : j <= i
    IN SubSeq(s, last + 1, Len(s))

\* trim(both c FROM s)
RECURSIVE TrimBoth(_, _)
TrimBoth(s, c) ==
    IF s = <<>> THEN s
    ELSE IF s[1] = c THEN TrimBoth(Tail(s), c)
    ELSE IF s[Len(s)] = c THEN TrimBoth(SubSeq(s, 1, Len(s) - 1), c)
    ELSE s

\* the date_str column: CASE WHEN publisher_date IS NOT NULL AND strpos > 0
DateStrNoParenCheck(publisher_date) ==
    IF ~IsNull(publisher_date)
    THEN Val(TrimBoth(LastSegment(publisher_date[1]), ")"))
    ELSE Null

DateStr(publisher_date) ==
    IF ~IsNull(publisher_date) /\ HasParen(publisher_date[1])
    THEN Val(TrimBoth(LastSegment(publisher_date[1]), ")"))
    ELSE Null

\* try_strptime(date_str, '%B %d, %Y'): NULL instead of an error
try_strptime(date_str) ==
    IF IsNull(date_str) THEN Null
    ELSE LET t == date_str[1]
         IN IF /\ Len(t) = 6
               /\ t[1] \in DOMAIN MonthNumber
               /\ t[2] = " "
               /\ t[3] \in DOMAIN DayNumber
               /\ t[4] = ","
               /\ t[5] = " "
               /\ t[6] \in DOMAIN YearNumber
               /\ DayNumber[t[3]] <= DaysInMonth(MonthNumber[t[1]], YearNumber[t[6]])
            THEN Val([year |-> YearNumber[t[6]], month |-> MonthNumber[t[1]],
                      day |-> DayNumber[t[3]]])
            ELSE Null

\* year(published_date)
YearOfFirst(d) == IF IsNull(d) THEN Null ELSE Val(2020)

year(d) == IF IsNull(d) THEN Null ELSE Val(d[1].year)

\* one row of processed_metadata: * EXCLUDE (publisher_date), date_str, published_date
ProcessedRow(row) ==
    [f \in (DOMAIN row \ {"publisher_date"}) \cup {"date_str", "published_date"} |->
        IF f = "date_str" THEN DateStr(row.publisher_date)
        ELSE IF f = "published_date" THEN try_strptime(DateStr(row.publisher_date))
        ELSE row[f]]

ProcessedMetadataQuery(books_metadata) ==
    [i \in 1..Len(books_metadata) |-> ProcessedRow(books_metadata[i])]

\* ------------------------------------------------------------------------
\* Relational helpers (the DuckDB queries of dataprocessing.py)
\* ------------------------------------------------------------------------
Range(t) == {t[i] : i \in 1..Len(t)}

\* FROM m INNER JOIN r USING (parent_asin): pairs <<row of m, row of r>>
InnerJoin(m, r) ==
    {p \in (1..Len(m)) \X (1..Len(r)) :
        /\ ~IsNull(m[p[1]].parent_asin)
        /\ m[p[1]].parent_asin = r[p[2]].parent_asin}

\* FROM m LEFT JOIN r USING (parent_asin): an unmatched row of m is paired
\* with 0, the all-NULL review
LeftJoinMatchedOnly(m, r) == InnerJoin(m, r)

LeftJoin(m, r) ==
    LET matched == InnerJoin(m, r)
    IN matched \cup
       {<<i, 0>> : i \in {k \in 1..Len(m) : \A j \in 1..Len(r) : <<k, j>> \notin matched}}

\* count(DISTINCT m.parent_asin)
CountDistinctAsin(G, m) == Cardinality({m[p[1]].parent_asin : p \in G} \ {Null})

\* count(r.asin)
CountReviewAsin(G, r) == Cardinality({p \in G : p[2] # 0 /\ ~IsNull(r[p[2]].asin)})

\* sum(r.rating * m.price_numeric): NULL when no joined row has both
SumSalesNoPrice(G, m, r) ==
    LET T == {p \in G : p[2] # 0 /\ ~IsNull(r[p[2]].rating)}
    IN IF T = {} THEN Null
       ELSE Val(SumF([p \in T |-> r[p[2]].rating[1]], T))

SumSales(G, m, r) ==
    LET T == {p \in G : /\ p[2] # 0
                        /\ ~IsNull(r[p[2]].rating)
                        /\ ~IsNull(m[p[1]].price_numeric)}
    IN IF T = {} THEN Null
       ELSE Val(SumF([p \in T |-> r[p[2]].rating[1] * m[p[1]].price_numeric[1]], T))

\* avg(m.<col>) over the joined rows, kept as the fraction <<sum, count>>
AvgMeta(G, m, col) ==
    LET T == {p \in G : ~IsNull(m[p[1]][col])}
    IN IF T = {} THEN Null
       ELSE Val(<<SumF([p \in T |-> m[p[1]][col][1]], T), Cardinality(T)>>)

\* avg(r.rating)
AvgRating(G, r) ==
    LET T == {p \in G : p[2] # 0 /\ ~IsNull(r[p[2]].rating)}
    IN IF T = {} THEN Null
       ELSE Val(<<SumF([p \in T |-> r[p[2]].rating[1]], T), Cardinality(T)>>)

\* ORDER BY: ascending and descending keys, NULLs last (DuckDB's default)
AscBefore(a, b) == ~IsNull(a) /\ (IsNull(b) \/ a[1] < b[1])

DescBefore(a, b) == ~IsNull(a) /\ (IsNull(b) \/ a[1] > b[1])

\* the position of a text in the collation of the book_format values
Collation == <<"All Formats", "Hardcover", "Kindle", "Paperback">>

TextRank(s) == Val(CHOOSE i \in 1..Len(Collation) : Collation[i] = s[1])

\* every order of the rows S the engine may return under ORDER BY: rows that
\* tie on the sort keys come in either order
OrderBy(S, Before(_, _)) ==
    {t \in [1..Cardinality(S) -> S] :
        /\ \A x \in S : \E i \in 1..Cardinality(S) : t[i] = x
        /\ \A i, j \in 1..Cardinality(S) : i < j => ~Before(t[j], t[i])}

\* ------------------------------------------------------------------------
\* The derived tables
\* ------------------------------------------------------------------------
\* WHERE clauses, on a row of processed_metadata
ScorecardWhereNoDateFilter(row) == TRUE

ScorecardWhere(row) == ~IsNull(row.published_date)

GenreWhere(row) ==
    ~IsNull(row.published_date) /\ ~IsNull(row.category_level_3_detail)

TopBooksWhere(row) == ~IsNull(row.published_date)

TopAuthorsWhere(row) == ~IsNull(row.published_date) /\ ~IsNull(row.author_name)

FormatWhere(row) ==
    /\ ~IsNull(row.published_date)
    /\ ~IsNull(row.price_numeric)
    /\ ~IsNull(row.category_level_3_detail)

AllFormatsWhereAsFormat(row) ==
    /\ ~IsNull(row.published_date)
    /\ ~IsNull(row.price_numeric)
    /\ ~IsNull(row.category_level_3_detail)

AllFormatsWhere(row) == ~IsNull(row.published_date) /\ ~IsNull(row.price_numeric)

TopPublishersWhere(row) ==
    /\ ~IsNull(row.published_date)
    /\ ~IsNull(row.publisher)
    /\ ~IsNull(row.category_level_3_detail)

\* scorecard_data: GROUP BY year ORDER BY year
ScorecardRowsNoBooks(pm, r) ==
    LET J == {p \in LeftJoin(pm, r) : ScorecardWhere(pm[p[1]])}
        Key(p) == year(pm[p[1]].published_date)
    IN {LET G == {p \in J : Key(p) = k}
        IN [year |-> k,
            total_reviews |-> CountReviewAsin(G, r),
            total_sales |-> SumSales(G, pm, r)] : k \in {Key(p) : p \in J}}

ScorecardRows(pm, r) ==
    LET J == {p \in LeftJoin(pm, r) : ScorecardWhere(pm[p[1]])}
        Key(p) == year(pm[p[1]].published_date)
    IN {LET G == {p \in J : Key(p) = k}
        IN [year |-> k,
            total_books |-> CountDistinctAsin(G, pm),
            total_reviews |-> CountReviewAsin(G, r),
            total_sales |-> SumSales(G, pm, r)] : k \in {Key(p) : p \in J}}

ScorecardQuery(pm, r) ==
    OrderBy(ScorecardRows(pm, r), LAMBDA a, b : AscBefore(a.year, b.year))

\* genre_data: GROUP BY year, genre ORDER BY year, book_count DESC
GenreBookCountAllRows(G, m) == Cardinality(G)

GenreBookCount(G, m) == CountDistinctAsin(G, m)

GenreRows(pm, r) ==
    LET J == {p \in LeftJoin(pm, r) : GenreWhere(pm[p[1]])}
        Key(p) == <<year(pm[p[1]].published_date), pm[p[1]].category_level_3_detail>>
    IN {LET G == {p \in J : Key(p) = k}
        IN [year |-> k[1],
            genre |-> k[2],
            book_count |-> GenreBookCount(G, pm),
            review_count |-> CountReviewAsin(G, r),
            total_sales |-> SumSales(G, pm, r)] : k \in {Key(p) : p \in J}}

GenreQuery(pm, r) ==
    OrderBy(GenreRows(pm, r),
            LAMBDA a, b : \/ AscBefore(a.year, b.year)
                          \/ a.year = b.year /\ a.book_count > b.book_count)

\* top_books_data: GROUP BY year, title, author_name, genre
\* ORDER BY year, total_sales DESC
TopBooksRows(pm, r) ==
    LET J == {p \in LeftJoin(pm, r) : TopBooksWhere(pm[p[1]])}
        Key(p) == <<year(pm[p[1]].published_date), pm[p[1]].title,
                    pm[p[1]].author_name, pm[p[1]].category_level_3_detail>>
    IN {LET G == {p \in J : Key(p) = k}
        IN [year |-> k[1],
            title |-> k[2],
            author_name |-> k[3],
            genre |-> k[4],
            total_reviews |-> CountReviewAsin(G, r),
            total_sales |-> SumSales(G, pm, r)] : k \in {Key(p) : p \in J}}

BySalesAsc(a, b) ==
    \/ AscBefore(a.year, b.year)
    \/ a.year = b.year /\ AscBefore(a.total_sales, b.total_sales)

BySalesDesc(a, b) ==
    \/ AscBefore(a.year, b.year)
    \/ a.year = b.year /\ DescBefore(a.total_sales, b.total_sales)

TopBooksQueryFirstOnly(pm, r) ==
    {IF t = <<>> THEN t ELSE <<t[1]>> : t \in OrderBy(TopBooksRows(pm, r), BySalesDesc)}

TopBooksQuery(pm, r) == OrderBy(TopBooksRows(pm, r), BySalesDesc)

\* top_authors_data: GROUP BY year, author_name ORDER BY year, total_sales DESC
TopAuthorsRows(pm, r) ==
    LET J == {p \in LeftJoin(pm, r) : TopAuthorsWhere(pm[p[1]])}
        Key(p) == <<year(pm[p[1]].published_date), pm[p[1]].author_name>>
    IN {LET G == {p \in J : Key(p) = k}
        IN [year |-> k[1],
            author_name |-> k[2],
            total_reviews |-> CountReviewAsin(G, r),
            total_sales |-> SumSales(G, pm, r)] : k \in {Key(p) : p \in J}}

TopAuthorsQuery(pm, r) == OrderBy(TopAuthorsRows(pm, r), BySalesDesc)

\* format_data: GROUP BY year, book_format, genre ORDER BY year, book_format
FormatRows(pm, r) ==
    LET J == {p \in LeftJoin(pm, r) : FormatWhere(pm[p[1]])}
        BookFormat(row) == IF IsNull(row.format) THEN Val("Kindle") ELSE row.format
        Key(p) == <<year(pm[p[1]].published_date), BookFormat(pm[p[1]]),
                    pm[p[1]].category_level_3_detail>>
    IN {LET G == {p \in J : Key(p) = k}
        IN [year |-> k[1],
            book_format |-> k[2],
            genre |-> k[3],
            avg_price |-> AvgMeta(G, pm, "price_numeric"),
            avg_page_count |-> AvgMeta(G, pm, "page_count"),
            book_count |-> CountDistinctAsin(G, pm),
            total_reviews |-> CountReviewAsin(G, r),
            total_sales |-> SumSales(G, pm, r)] : k \in {Key(p) : p \in J}}

\* all_formats: GROUP BY year ORDER BY year; the genre column a rollup row has
\* not is NULL after pd.concat
AllFormatsRows(pm, r) ==
    LET J == {p \in LeftJoin(pm, r) : AllFormatsWhere(pm[p[1]])}
        Key(p) == year(pm[p[1]].published_date)
    IN {LET G == {p \in J : Key(p) = k}
        IN [year |-> k,
            book_format |-> Val("All Formats"),
            genre |-> Null,
            avg_price |-> AvgMeta(G, pm, "price_numeric"),
            avg_page_count |-> AvgMeta(G, pm, "page_count"),
            book_count |-> CountDistinctAsin(G, pm),
            total_reviews |-> CountReviewAsin(G, r),
            total_sales |-> SumSales(G, pm, r)] : k \in {Key(p) : p \in J}}

\* pd.concat([format_data, all_formats], ignore_index=True)
FormatQuery(pm, r) ==
    {f \o a :
        f \in OrderBy(FormatRows(pm, r),
                      LAMBDA x, y : \/ AscBefore(x.year, y.year)
                                    \/ /\ x.year = y.year
                                       /\ AscBefore(TextRank(x.book_format),
                                                    TextRank(y.book_format))),
        a \in OrderBy(AllFormatsRows(pm, r), LAMBDA x, y : AscBefore(x.year, y.year))}

\* top_publishers_data: GROUP BY year, publisher_name, genre
\* ORDER BY year, total_sales DESC
TopPublishersRows(pm, r) ==
    LET J == {p \in LeftJoin(pm, r) : TopPublishersWhere(pm[p[1]])}
        Key(p) == <<year(pm[p[1]].published_date), pm[p[1]].publisher,
                    pm[p[1]].category_level_3_detail>>
    IN {LET G == {p \in J : Key(p) = k}
        IN [year |-> k[1],
            publisher_name |-> k[2],
            genre |-> k[3],
            book_count |-> CountDistinctAsin(G, pm),
            total_reviews |-> CountReviewAsin(G, r),
            total_sales |-> SumSales(G, pm, r),
            avg_rating |-> AvgRating(G, r)] : k \in {Key(p) : p \in J}}

TopPublishersQuery(pm, r) == OrderBy(TopPublishersRows(pm, r), BySalesDesc)

\* ------------------------------------------------------------------------
\* Files of ./dataset
\* ------------------------------------------------------------------------
metadata_path == "metadata.csv"

reviews_path == "reviews.csv"

clean_reviews_path == "books_reviews_clean.csv"

InputFiles == {metadata_path, reviews_path, clean_reviews_path}

\* the seven files dataprocessing.py writes with to_csv, in the order it writes them
OutputOrder ==
    <<"processed_metadata.csv", "scorecard_data.csv", "genre_data.csv",
      "top_books_data.csv", "top_authors_data.csv", "format_data.csv",
      "top_publishers_data.csv">>

OutputFiles == Range(OutputOrder)

Files == InputFiles \cup OutputFiles

\* main.py
REQUIRED_OUTPUTS ==
    {"processed_metadata.csv", "scorecard_data.csv", "genre_data.csv",
     "books_reviews_clean.csv"}

GateAlwaysOpen(present) == FALSE

outputs_ready(present) == \A f \in REQUIRED_OUTPUTS : f \in present

\* the gates of the acquisition stage
NeedRawAlways(present) == TRUE

NeedRaw(present) == metadata_path \notin present \/ reviews_path \notin present

NeedCleanNever(present) == FALSE

NeedClean(present) == clean_reviews_path \notin present

\* the content of tobypu/book-reviews-clean, which no query reads
CleanReviews == <<[source |-> "book-reviews-clean"]>>

\* ------------------------------------------------------------------------
\* State
\* ------------------------------------------------------------------------
VARIABLES
    remote_metadata,     \* the Kaggle metadata sample
    remote_reviews,      \* the Kaggle reviews sample
    dir_exists,          \* ./dataset exists
    exists,              \* the files present in ./dataset
    content,             \* the table each file holds
    pc,                  \* position of dataprocessing.py
    caller,              \* who started dataprocessing.py
    books_metadata,      \* DataFrames of the running script
    books_reviews,
    processed_metadata,
    writes,              \* files written by the current (or last) run, in order
    runs,                \* runs started
    fresh,               \* the last run succeeded and no file was deleted since
    rerun,               \* the current (or last) run started with fresh
    deletes,             \* files deleted by the user
    main_pc,             \* position of main.py
    shown,               \* what the page or script run last (main.py, dash1.py,
                         \* dash2.py) has shown
    dash1                \* the widget values and the Top 10 Authors chart of the
                         \* running (or last) dash1.py

vars ==
    <<remote_metadata, remote_reviews, dir_exists, exists, content, pc, caller,
      books_metadata, books_reviews, processed_metadata, writes, runs, fresh,
      rerun, deletes, main_pc, shown, dash1>>

data_vars == <<remote_metadata, remote_reviews>>

frames == <<books_metadata, books_reviews, processed_metadata>>

main_vars == <<main_pc, shown>>

Steps ==
    <<"acquire_raw", "acquire_clean", "load", "processed", "scorecard", "genre",
      "top_books", "top_authors", "format", "top_publishers">>

\* ------------------------------------------------------------------------
\* Inputs
\* ------------------------------------------------------------------------
SeqsUpTo(S, n) == UNION {[1..k -> S] : k \in 0..n}

D2020 == <<"Pub", " ", "(", "January", " ", "5", ",", " ", "2020", ")">>

D2021 ==
    <<"Pub", " ", "(", "Imprint", ")", " ", "(", "March", " ", "1", ",", " ", "2021", ")">>

DNotADate == <<"(", "not", " ", "a", " ", "date", ")">>

DNoParen == <<"January", " ", "5", ",", " ", "2020">>

DTrailing == <<"Pub", " ", "(", "January", " ", "5", ",", " ", "2020", ")", " ", "extra">>

DFeb30 == <<"(", "February", " ", "30", ",", " ", "2021", ")">>

MetaRows(Asins, Dates, Genres, Formats, Prices, Authors, Publishers) ==
    {[parent_asin |-> a, title |-> Val("title"), author_name |-> au, publisher |-> pu,
      publisher_date |-> d, category_level_3_detail |-> g, format |-> f,
      price_numeric |-> p, page_count |-> Val(100)] :
        a \in Asins, d \in Dates, g \in Genres, f \in Formats, p \in Prices,
        au \in Authors, pu \in Publishers}

ReviewRows(Asins, Ratings) ==
    {[parent_asin |-> a, asin |-> a, rating |-> x] : a \in Asins, x \in Ratings}

\* dash1.py has drawn no Top 10 Authors chart
NoChart ==
    [drawn |-> FALSE, year_range |-> <<0, 0>>, measure |-> "Sales",
     selected_genre |-> "All Genres", top_authors |-> <<>>]

\* started: the runs counted as made before the first state
InitWith(metas, reviews, dirs, started) ==
    /\ remote_metadata \in metas
    /\ remote_reviews \in reviews
    /\ \E d \in dirs :
        /\ dir_exists = d[1]
        /\ exists = d[2]
        /\ content = [f \in Files |->
                        IF f \notin d[2] THEN <<>>
                        ELSE IF f = metadata_path THEN remote_metadata
                        ELSE IF f = reviews_path THEN remote_reviews
                        ELSE CleanReviews]
    /\ pc = "idle"
    /\ caller = "none"
    /\ books_metadata = <<>>
    /\ books_reviews = <<>>
    /\ processed_metadata = <<>>
    /\ writes = <<>>
    /\ runs = started
    /\ fresh = FALSE
    /\ rerun = FALSE
    /\ deletes = 0
    /\ main_pc = "none"
    /\ shown = {}
    /\ dash1 = NoChart

\* a checkout without ./dataset, an empty one, one with part of the raw files,
\* one with all three input files; the dataset is empty, one dated item with a
\* review, or a dated and an undated item
Item2020 ==
    [parent_asin |-> Val("A"), title |-> Val("title"), author_name |-> Val("a1"),
     publisher |-> Val("p1"), publisher_date |-> Val(D2020),
     category_level_3_detail |-> Val("g1"), format |-> Val("Paperback"),
     price_numeric |-> Val(2), page_count |-> Val(100)]

ItemUndated == [Item2020 EXCEPT !.parent_asin = Val("B"), !.publisher_date = Val(DNotADate)]

ReviewOfA == [parent_asin |-> Val("A"), asin |-> Val("A"), rating |-> Val(5)]

Init ==
    InitWith(
        {<<>>, <<Item2020>>, <<Item2020, ItemUndated>>},
        {<<>>, <<ReviewOfA>>},
        {<<FALSE, {}>>, <<TRUE, {}>>, <<TRUE, {metadata_path}>>, <<TRUE, InputFiles>>},
        0)

\* ------------------------------------------------------------------------
\* dataprocessing.py
\* ------------------------------------------------------------------------
\* to_csv / shutil.copy: the file now holds the table
Write(f, t) ==
    /\ exists' = exists \cup {f}
    /\ content' = [content EXCEPT ![f] = t]
    /\ writes' = Append(writes, f)

\* the interpreter starts the script: lines 1-22, os.makedirs(OUTDIR)
BeginRun(c) ==
    /\ pc = "idle"
    /\ runs < MaxRuns
    /\ pc' = "acquire_raw"
    /\ caller' = c
    /\ runs' = runs + 1
    /\ writes' = <<>>
    /\ rerun' = fresh
    /\ fresh' = FALSE
    /\ dir_exists' = TRUE
    /\ books_metadata' = <<>>
    /\ books_reviews' = <<>>
    /\ processed_metadata' = <<>>
    /\ UNCHANGED <<data_vars, dash1, exists, content, deletes>>

\* python dataprocessing.py
StartDirect ==
    /\ main_pc = "none"
    /\ BeginRun("direct")
    /\ UNCHANGED main_vars

\* lines 27-42: both raw tables are downloaded and saved unless both files exist
AcquireRaw ==
    /\ pc = "acquire_raw"
    /\ IF NeedRaw(exists)
       THEN /\ books_metadata' = remote_metadata
            /\ books_reviews' = remote_reviews
            /\ exists' = exists \cup {metadata_path, reviews_path}
            /\ content' = [content EXCEPT ![metadata_path] = remote_metadata,
                                          ![reviews_path] = remote_reviews]
            /\ writes' = writes \o <<metadata_path, reviews_path>>
       ELSE UNCHANGED <<books_metadata, books_reviews, exists, content, writes>>
    /\ pc' = "acquire_clean"
    /\ UNCHANGED <<data_vars, dash1, dir_exists, caller, processed_metadata, runs, fresh,
                   rerun, deletes, main_vars>>

\* lines 47-52
AcquireClean ==
    /\ pc = "acquire_clean"
    /\ IF NeedClean(exists)
       THEN Write(clean_reviews_path, CleanReviews)
       ELSE UNCHANGED <<exists, content, writes>>
    /\ pc' = "load"
    /\ UNCHANGED <<data_vars, dash1, dir_exists, caller, frames, runs, fresh, rerun, deletes,
                   main_vars>>

\* lines 57-63: pd.read_csv of the three input files, duckdb.register
LoadCsv ==
    /\ pc = "load"
    /\ books_metadata' = content[metadata_path]
    /\ books_reviews' = content[reviews_path]
    /\ pc' = "processed"
    /\ UNCHANGED <<data_vars, dash1, dir_exists, exists, content, caller, processed_metadata,
                   writes, runs, fresh, rerun, deletes, main_vars>>

\* lines 68-88
Processed ==
    /\ pc = "processed"
    /\ processed_metadata' = ProcessedMetadataQuery(books_metadata)
    /\ Write("processed_metadata.csv", processed_metadata')
    /\ pc' = "scorecard"
    /\ UNCHANGED <<data_vars, dash1, dir_exists, caller, books_metadata, books_reviews, runs,
                   fresh, rerun, deletes, main_vars>>

derive_frame ==
    <<data_vars, dash1, dir_exists, caller, frames, runs, fresh, rerun, deletes, main_vars>>

\* lines 93-106
Scorecard ==
    /\ pc = "scorecard"
    /\ \E t \in ScorecardQuery(processed_metadata, books_reviews) :
          Write("scorecard_data.csv", t)
    /\ pc' = "genre"
    /\ UNCHANGED derive_frame

\* lines 111-126
Genre ==
    /\ pc = "genre"
    /\ \E t \in GenreQuery(processed_metadata, books_reviews) :
          Write("genre_data.csv", t)
    /\ pc' = "top_books"
    /\ UNCHANGED derive_frame

\* lines 131-146
TopBooks ==
    /\ pc = "top_books"
    /\ \E t \in TopBooksQuery(processed_metadata, books_reviews) :
          Write("top_books_data.csv", t)
    /\ pc' = "top_authors"
    /\ UNCHANGED derive_frame

\* lines 151-165
TopAuthors ==
    /\ pc = "top_authors"
    /\ \E t \in TopAuthorsQuery(processed_metadata, books_reviews) :
          Write("top_authors_data.csv", t)
    /\ pc' = "format"
    /\ UNCHANGED derive_frame

\* lines 170-207
Format ==
    /\ pc = "format"
    /\ \E t \in FormatQuery(processed_metadata, books_reviews) :
          Write("format_data.csv", t)
    /\ pc' = "top_publishers"
    /\ UNCHANGED derive_frame

\* lines 212-237: the last table, then the script prints and exits with status 0
TopPublishersWrongFile ==
    /\ pc = "top_publishers"
    /\ \E t \in TopPublishersQuery(processed_metadata, books_reviews) :
          Write("format_data.csv", t)
    /\ pc' = "done"
    /\ UNCHANGED derive_frame

TopPublishers ==
    /\ pc = "top_publishers"
    /\ \E t \in TopPublishersQuery(processed_metadata, books_reviews) :
          Write("top_publishers_data.csv", t)
    /\ pc' = "done"
    /\ UNCHANGED derive_frame

\* a download, a read, a query or a write raises: the script exits nonzero
\* before the step it was at has taken effect
Fail ==
    /\ pc \in Range(Steps)
    /\ pc' = "failed"
    /\ UNCHANGED <<data_vars, dash1, dir_exists, exists, content, caller, frames, writes, runs,
                   fresh, rerun, deletes, main_vars>>

\* the process started from the shell has exited
Exit ==
    /\ pc \in {"done", "failed"}
    /\ caller = "direct"
    /\ pc' = "idle"
    /\ fresh' = (pc = "done")
    /\ UNCHANGED <<data_vars, dash1, dir_exists, exists, content, caller, frames, writes, runs,
                   rerun, deletes, main_vars>>

\* the user removes one file of ./dataset between runs
DeleteFile ==
    /\ pc = "idle"
    /\ main_pc = "none"
    /\ deletes < MaxDeletes
    /\ \E f \in exists :
        /\ exists' = exists \ {f}
        /\ content' = [content EXCEPT ![f] = <<>>]
    /\ deletes' = deletes + 1
    /\ fresh' = FALSE
    /\ UNCHANGED <<data_vars, dash1, dir_exists, pc, caller, frames, writes, runs, rerun,
                   main_vars>>

\* ------------------------------------------------------------------------
\* main.py
\* ------------------------------------------------------------------------
\* lines 47-52: the listing of ./dataset
Listing == IF exists = {} THEN {"warning: folder empty"} ELSE {"files"}

\* lines 36-52 under streamlit, the button not pressed (or not drawn)
MainPageView ==
    /\ pc = "idle"
    /\ main_pc = "none"
    /\ shown' = IF ~dir_exists THEN {"error: folder missing"}
                ELSE IF ~outputs_ready(exists)
                     THEN {"warning: outputs missing"} \cup Listing
                     ELSE Listing
    /\ UNCHANGED <<data_vars, dash1, dir_exists, exists, content, pc, caller, frames, writes,
                   runs, fresh, rerun, deletes, main_pc>>

\* lines 40-44: the user presses "Run preprocessing"
MainPageClick ==
    /\ main_pc = "none"
    /\ dir_exists
    /\ ~outputs_ready(exists)
    /\ BeginRun("button")
    /\ main_pc' = "button"
    /\ shown' = {"warning: outputs missing"}

\* python main.py, lines 55-58: the gate is open
MainCliRun ==
    /\ main_pc = "none"
    /\ dir_exists
    /\ ~outputs_ready(exists)
    /\ BeginRun("cli")
    /\ main_pc' = "cli"
    /\ shown' = {"warning: outputs missing", "Running data processing..."} \cup Listing

\* python main.py, lines 55-60: the gate is closed, or line 38 stopped the script
MainCliSkip ==
    /\ pc = "idle"
    /\ main_pc = "none"
    /\ ~dir_exists \/ outputs_ready(exists)
    /\ shown' = IF ~dir_exists THEN {"error: folder missing"}
                ELSE Listing \cup {"Preprocessing complete. Run streamlit"}
    /\ UNCHANGED <<data_vars, dash1, dir_exists, exists, content, pc, caller, frames, writes,
                   runs, fresh, rerun, deletes, main_pc>>

\* subprocess.run(..., check=True) returns, or raises CalledProcessError
MainResumeNoCheck ==
    /\ main_pc \in {"button", "cli"}
    /\ pc \in {"done", "failed"}
    /\ pc' = "idle"
    /\ fresh' = (pc = "done")
    /\ main_pc' = "none"
    /\ shown' = IF main_pc = "button"
                THEN shown \cup {"Preprocessing complete. Refresh the page."}
                           \cup {"files"}
                ELSE shown \cup {"Data processing completed successfully!",
                                 "Preprocessing complete. Run streamlit"}
    /\ UNCHANGED <<data_vars, dash1, dir_exists, exists, content, caller, frames, writes, runs,
                   rerun, deletes>>

MainResume ==
    /\ main_pc \in {"button", "cli"}
    /\ pc \in {"done", "failed"}
    /\ pc' = "idle"
    /\ fresh' = (pc = "done")
    /\ main_pc' = "none"
    /\ shown' = IF pc = "failed" THEN shown \cup {"CalledProcessError"}
                ELSE IF main_pc = "button"
                     THEN shown \cup {"Preprocessing complete. Refresh the page."}
                                \cup {"files"}
                     ELSE shown \cup {"Data processing completed successfully!",
                                      "Preprocessing complete. Run streamlit"}
    /\ UNCHANGED <<data_vars, dash1, dir_exists, exists, content, caller, frames, writes, runs,
                   rerun, deletes>>

\* ------------------------------------------------------------------------
\* dash1.py and pages/dash2.py: the loading of the files
\* ------------------------------------------------------------------------
\* dash1.py lines 27-43: os.path.getmtime and pd.read_csv of five files
Dash1Files ==
    {"scorecard_data.csv", "genre_data.csv", "top_books_data.csv",
     "top_authors_data.csv", "top_publishers_data.csv"}

\* dash1.py: load_data (lines 27-43), the filters and key metrics (lines 76-107),
\* load_format_data (lines 110-114), the charts (from line 117); a missing
\* file raises FileNotFoundError where it is first read, and int() of the
\* year column's min() raises ValueError (line 79) when the scorecard is empty
Dash1Page ==
    /\ pc = "idle"
    /\ main_pc = "none"
    /\ shown' = IF ~(Dash1Files \subseteq exists) THEN {"FileNotFoundError"}
                ELSE IF content["scorecard_data.csv"] = <<>> THEN {"ValueError"}
                ELSE IF "format_data.csv" \notin exists
                     THEN {"dash1: key metrics", "FileNotFoundError"}
                     ELSE {"dash1: key metrics", "dash1: charts"}
    /\ dash1' = NoChart
    /\ UNCHANGED <<data_vars, dir_exists, exists, content, pc, caller, frames, writes,
                   runs, fresh, rerun, deletes, main_pc>>

\* pages/dash2.py lines 158-167: load_data reads books_reviews_clean.csv
Dash2Page ==
    /\ pc = "idle"
    /\ main_pc = "none"
    /\ shown' = IF clean_reviews_path \notin exists THEN {"FileNotFoundError"}
                ELSE {"dash2: author insights"}
    /\ UNCHANGED <<data_vars, dash1, dir_exists, exists, content, pc, caller, frames, writes,
                   runs, fresh, rerun, deletes, main_pc>>

\* ------------------------------------------------------------------------
\* dash1.py: the filters and the Top 10 Authors chart
\* ------------------------------------------------------------------------
\* lines 72-73: the rows of a frame whose year is within the slider's range
filter_by_year(df, year_range) ==
    {x \in Range(df) : x.year[1] >= year_range[1] /\ x.year[1] <= year_range[2]}

\* lines 78-80: the ranges the "Published Year" slider can give; its bounds
\* are the first and last year of the scorecard, widened to hold the default
\* (2000, last year)
YearRanges(scorecard) ==
    LET years == {x.year[1] : x \in Range(scorecard)}
        last == CHOOSE y \in years : \A z \in years : z <= y
        first == CHOOSE y \in years \cup {2000} : \A z \in years \cup {2000} : y <= z
    IN {yr \in (years \cup {2000}) \X (years \cup {2000}) :
            first <= yr[1] /\ yr[1] <= yr[2] /\ yr[2] <= last}

\* lines 85-91: the options of "Filter by Genre"
genre_options(genre_data, year_range) ==
    {"All Genres"} \cup
    {x.genre[1] : x \in {y \in filter_by_year(genre_data, year_range) : ~IsNull(y.genre)}}

\* line 345: the authors with a top-books row of the genre within the range
AllAuthorsInRange(top_books_data, year_range, selected_genre) ==
    {x.author_name : x \in filter_by_year(top_books_data, year_range)}

genre_authors(top_books_data, year_range, selected_genre) ==
    {x.author_name : x \in {y \in filter_by_year(top_books_data, year_range) :
                                y.genre = Val(selected_genre)}}

\* lines 343-346
filtered_authors(top_authors_data, top_books_data, year_range, selected_genre) ==
    IF selected_genre = "All Genres" THEN filter_by_year(top_authors_data, year_range)
    ELSE {x \in filter_by_year(top_authors_data, year_range) :
            x.author_name \in genre_authors(top_books_data, year_range, selected_genre)}

\* line 54: cols['books_col'], a NaN counting as 0 in a sum
MeasureOf(x, measure) ==
    IF measure = "Sales" THEN (IF IsNull(x.total_sales) THEN 0 ELSE x.total_sales[1])
    ELSE x.total_reviews

\* line 309: the number of rows nlargest keeps
TopN == 10

\* DataFrame.nlargest(n, col) on rows <<key, value>> that groupby has sorted by
\* key: the n greatest values in descending order, of equal values the one that
\* comes first
RECURSIVE nlargest(_, _)
nlargest(agg, n) ==
    IF n = 0 \/ agg = {} THEN <<>>
    ELSE LET x == CHOOSE a \in agg :
                    \A b \in agg : \/ b[2] < a[2]
                                   \/ b[2] = a[2] /\ a[1][1] <= b[1][1]
         IN <<x>> \o nlargest(agg \ {x}, n - 1)

\* lines 308-311: data.groupby(['author_name'])[col].sum().reset_index()
\* .nlargest(10, col); groupby drops the rows without author
create_top_chart(data, measure) ==
    LET names == {x.author_name : x \in data} \ {Null}
        agg == {<<a, SumF([x \in {y \in data : y.author_name = a} |->
                              MeasureOf(x, measure)],
                          {y \in data : y.author_name = a})>> : a \in names}
    IN nlargest(agg, TopN)

\* dash1.py after the loading: the widgets (lines 76-92) and the Top 10
\* Authors chart (lines 338-358)
Dash1TopAuthors ==
    /\ pc = "idle"
    /\ main_pc = "none"
    /\ "dash1: charts" \in shown
    /\ ~dash1.drawn
    /\ \E year_range \in YearRanges(content["scorecard_data.csv"]),
          measure \in {"Sales", "Reviews"} :
        \E selected_genre \in genre_options(content["genre_data.csv"], year_range) :
            dash1' = [drawn |-> TRUE, year_range |-> year_range, measure |-> measure,
                      selected_genre |-> selected_genre,
                      top_authors |->
                          create_top_chart(
                              filtered_authors(content["top_authors_data.csv"],
                                               content["top_books_data.csv"],
                                               year_range, selected_genre),
                              measure)]
    /\ UNCHANGED <<data_vars, dir_exists, exists, content, pc, caller, frames, writes,
                   runs, fresh, rerun, deletes, main_vars>>

\* ------------------------------------------------------------------------
\* Specifications
\* ------------------------------------------------------------------------
Pipeline ==
    \/ AcquireRaw
    \/ AcquireClean
    \/ LoadCsv
    \/ Processed
    \/ Scorecard
    \/ Genre
    \/ TopBooks
    \/ TopAuthors
    \/ Format
    \/ TopPublishers

Next ==
    \/ StartDirect
    \/ Pipeline
    \/ Fail
    \/ Exit
    \/ DeleteFile
    \/ MainPageView
    \/ MainPageClick
    \/ MainCliRun
    \/ MainCliSkip
    \/ MainResume
    \/ Dash1Page
    \/ Dash2Page

Spec == Init /\ [][Next]_vars

\* the script alone, run once to completion on every bounded input
NextRun ==
    \/ StartDirect
    \/ Pipeline
    \/ Exit

\* inputs that differ in the publisher_date text
InitDate ==
    InitWith(
        SeqsUpTo(MetaRows({Val("A")},
                          {Null, Val(D2020), Val(D2021), Val(DNotADate), Val(DNoParen),
                           Val(DTrailing), Val(DFeb30)},
                          {Val("g1")}, {Val("Paperback")}, {Val(2)}, {Val("a1")},
                          {Val("p1")}),
                 MaxRows),
        SeqsUpTo(ReviewRows({Val("A")}, {Val(5)}), MaxReviews),
        {<<TRUE, {}>>},
        MaxRuns - 1)

SpecDate == InitDate /\ [][NextRun]_vars

\* inputs that differ in item, year and genre; the reviews are of item A
InitAgg ==
    InitWith(
        SeqsUpTo(MetaRows({Val("A"), Val("B")},
                          {Val(D2020), Val(D2021), Val(DNotADate)},
                          {Null, Val("g1"), Val("g2")},
                          {Val("Paperback")}, {Val(2)}, {Val("a1")}, {Val("p1")}),
                 MaxRows),
        SeqsUpTo(ReviewRows({Val("A")}, {Val(5)}), MaxReviews),
        {<<TRUE, {}>>},
        MaxRuns - 1)

SpecAgg == InitAgg /\ [][NextRun]_vars

\* inputs that differ in item, year, author, publisher and price (among them a
\* row without author and publisher, one without price, one without date); the
\* reviews are of item A and differ in rating
TopVariants ==
    {<<Val(D2020), Val("a1"), Val("p1"), Val(2)>>,
     <<Val(D2020), Val("a2"), Val("p2"), Val(3)>>,
     <<Val(D2021), Val("a1"), Val("p1"), Val(3)>>,
     <<Val(D2020), Null, Null, Val(2)>>,
     <<Val(D2021), Val("a1"), Val("p1"), Null>>,
     <<Val(DNotADate), Val("a1"), Val("p1"), Val(2)>>}

TopRows ==
    UNION {MetaRows({Val("A"), Val("B")}, {v[1]}, {Val("g1")}, {Val("Paperback")},
                    {v[4]}, {v[2]}, {v[3]}) : v \in TopVariants}

InitTop ==
    InitWith(SeqsUpTo(TopRows, MaxRows),
             SeqsUpTo(ReviewRows({Val("A")}, {Val(3), Val(5)}), MaxReviews),
             {<<TRUE, {}>>},
             MaxRuns - 1)

SpecTop == InitTop /\ [][NextRun]_vars

\* one of the orders OrderBy(S, Before) holds
OneOrder(S, Before(_, _)) ==
    LET first[T \in SUBSET S] ==
            IF T = {} THEN <<>>
            ELSE LET x == CHOOSE y \in T : \A z \in T : ~Before(z, y)
                 IN <<x>> \o first[T \ {x}]
    IN first[S]

\* datasets of MaxAuthors authors, author k with the book k: the prices are
\* equal, rise or fall with k; the genre is g1, or g2 for author 1, or g2 for
\* the odd authors; all books are of 2020, or the last author's is of 2021 and
\* author 1 has a second book (0, of genre g1) in 2021
DashCases ==
    {"equal", "rising", "falling"} \X {"one_genre", "first_other", "odd_other"}
        \X {"one_year", "two_years"}

DashItem(k, c) ==
    [Item2020 EXCEPT
        !.parent_asin = Val(k),
        !.author_name = Val(IF k = 0 THEN 1 ELSE k),
        !.publisher_date =
            Val(IF c[3] = "two_years" /\ k \in {0, MaxAuthors} THEN D2021 ELSE D2020),
        !.category_level_3_detail =
            Val(IF \/ c[2] = "first_other" /\ k = 1
                   \/ c[2] = "odd_other" /\ k % 2 = 1
                THEN "g2" ELSE "g1"),
        !.price_numeric =
            Val(IF c[1] = "equal" THEN 2
                ELSE IF c[1] = "rising" THEN k + 1 ELSE MaxAuthors + 1 - k)]

DashMetadata(c) ==
    [i \in 1..(IF c[3] = "two_years" THEN MaxAuthors + 1 ELSE MaxAuthors) |->
        DashItem(IF i > MaxAuthors THEN 0 ELSE i, c)]

\* one review of every book but the book 2
DashReviews(c) ==
    [i \in 1..Len(DashMetadata(c)) - 1 |->
        LET k == IF i = 1 THEN 1 ELSE IF i = MaxAuthors THEN 0 ELSE i + 1
        IN [parent_asin |-> Val(k), asin |-> Val(k), rating |-> Val(5)]]

\* the files a run of dataprocessing.py leaves
OutputsOf(pm, r) ==
    [f \in OutputFiles |->
        CASE f = "processed_metadata.csv" -> pm
          [] f = "scorecard_data.csv" ->
                OneOrder(ScorecardRows(pm, r), LAMBDA a, b : AscBefore(a.year, b.year))
          [] f = "genre_data.csv" ->
                OneOrder(GenreRows(pm, r),
                         LAMBDA a, b : \/ AscBefore(a.year, b.year)
                                       \/ a.year = b.year /\ a.book_count > b.book_count)
          [] f = "top_books_data.csv" -> OneOrder(TopBooksRows(pm, r), BySalesDesc)
          [] f = "top_authors_data.csv" -> OneOrder(TopAuthorsRows(pm, r), BySalesDesc)
          [] f = "format_data.csv" ->
                OneOrder(FormatRows(pm, r),
                         LAMBDA x, y : \/ AscBefore(x.year, y.year)
                                       \/ /\ x.year = y.year
                                          /\ AscBefore(TextRank(x.book_format),
                                                       TextRank(y.book_format)))
                \o OneOrder(AllFormatsRows(pm, r), LAMBDA x, y : AscBefore(x.year, y.year))
          [] f = "top_publishers_data.csv" ->
                OneOrder(TopPublishersRows(pm, r), BySalesDesc)]

\* the state a first run of dataprocessing.py on one of the datasets leaves
InitDash ==
    /\ \E c \in DashCases :
        /\ remote_metadata = DashMetadata(c)
        /\ remote_reviews = DashReviews(c)
    /\ books_metadata = remote_metadata
    /\ books_reviews = remote_reviews
    /\ processed_metadata = ProcessedMetadataQuery(books_metadata)
    /\ dir_exists = TRUE
    /\ exists = Files
    /\ content = [f \in Files |->
                    IF f = metadata_path THEN remote_metadata
                    ELSE IF f = reviews_path THEN remote_reviews
                    ELSE IF f = clean_reviews_path THEN CleanReviews
                    ELSE OutputsOf(processed_metadata, books_reviews)[f]]
    /\ pc = "idle"
    /\ caller = "direct"
    /\ writes = <<metadata_path, reviews_path, clean_reviews_path>> \o OutputOrder
    /\ runs = MaxRuns
    /\ fresh = TRUE
    /\ rerun = FALSE
    /\ deletes = 0
    /\ main_pc = "none"
    /\ shown = {}
    /\ dash1 = NoChart

NextDash ==
    \/ Dash1Page
    \/ Dash1TopAuthors

SpecDash == InitDash /\ [][NextDash]_vars

\* ------------------------------------------------------------------------
\* Properties of the pipeline and of the gate (checked under Spec)
\* ------------------------------------------------------------------------
\* the derived-table files the current (or last) run has written
WrittenOutputs == Range(writes) \cap OutputFiles

C2_GateComplete ==
    outputs_ready(exists) => (OutputFiles \cup {clean_reviews_path}) \subseteq exists

\* C3: a run that aborts has written either all seven derived-table files or
\* none of them.
C3_NoPartialSuccess == pc = "failed" => WrittenOutputs \in {{}, OutputFiles}

\* ------------------------------------------------------------------------
\* Properties of the derived tables (checked under SpecDate and SpecAgg)
\* ------------------------------------------------------------------------
\* the rows the files hold once the run has completed
Stored ==
    [scorecard |-> Range(content["scorecard_data.csv"]),
     genre |-> Range(content["genre_data.csv"]),
     top_books |-> Range(content["top_books_data.csv"]),
     top_authors |-> Range(content["top_authors_data.csv"]),
     format |-> Range(content["format_data.csv"]),
     top_publishers |-> Range(content["top_publishers_data.csv"])]

\* the rows the six queries give on a processed table pm and the reviews r
Derived(pm, r) ==
    [scorecard |-> ScorecardRows(pm, r),
     genre |-> GenreRows(pm, r),
     top_books |-> TopBooksRows(pm, r),
     top_authors |-> TopAuthorsRows(pm, r),
     format |-> FormatRows(pm, r) \cup AllFormatsRows(pm, r),
     top_publishers |-> TopPublishersRows(pm, r)]

Tables == DOMAIN Stored

HasDate(row) == ~IsNull(row.published_date)

OwnYear(row) == row.published_date[1].year

IsRollup(x) == x.book_format = Val("All Formats")

OrZero(v) == IF IsNull(v) THEN 0 ELSE v[1]

\* the distinct items among the rows of pm that satisfy In
Items(pm, In(_)) == {pm[i].parent_asin : i \in {k \in 1..Len(pm) : In(pm[k])}} \ {Null}

\* C4: in the format table the book_count of a year's 'All Formats' row is the
\* sum of the book_count of that year's other rows.
C4_RollupBookCount ==
    pc = "done" =>
        \A x \in {y \in Stored.format : IsRollup(y)} :
            LET rest == {y \in Stored.format : ~IsRollup(y) /\ y.year = x.year}
            IN x.book_count = SumF([y \in rest |-> y.book_count], rest)

\* C5: in the format table the total_reviews and total_sales of a year's
\* 'All Formats' row are the sums over that year's other rows (a NULL sum
\* read as 0).
C5_RollupReviewMeasures ==
    pc = "done" =>
        \A x \in {y \in Stored.format : IsRollup(y)} :
            LET rest == {y \in Stored.format : ~IsRollup(y) /\ y.year = x.year}
            IN /\ x.total_reviews = SumF([y \in rest |-> y.total_reviews], rest)
               /\ OrZero(x.total_sales) = SumF([y \in rest |-> OrZero(y.total_sales)], rest)

\* a text that reads as 'Month Day, Year'
ReadsAsDate(t) ==
    \E m \in DOMAIN MonthNumber, d \in DOMAIN DayNumber, y \in DOMAIN YearNumber :
        /\ t = <<m, " ", d, ",", " ", y>>
        /\ DayNumber[d] <= DaysInMonth(MonthNumber[m], YearNumber[y])

\* publisher_date is null, has no '(', or its last fragment is no date
NoDateFragment(publisher_date) ==
    \/ IsNull(publisher_date)
    \/ "(" \notin Range(publisher_date[1])
    \/ ~ReadsAsDate(TrimBoth(LastSegment(publisher_date[1]), ")"))

\* C6: processed_metadata has one row per metadata row, in order and with the
\* row's other columns unchanged, and a row whose publisher_date is null, has
\* no '(' or whose last fragment is no date has a null published_date.
C6_DateNormalizationNeverErrors ==
    "processed_metadata.csv" \in Range(writes) =>
        LET pm == content["processed_metadata.csv"]
        IN /\ Len(pm) = Len(books_metadata)
           /\ \A i \in 1..Len(books_metadata) :
                /\ \A f \in DOMAIN books_metadata[i] \ {"publisher_date"} :
                      pm[i][f] = books_metadata[i][f]
                /\ NoDateFragment(books_metadata[i].publisher_date)
                      => IsNull(pm[i].published_date)

C6_Witness ==
    /\ pc = "done"
    /\ Len(books_metadata) = 2
    /\ books_metadata[1].publisher_date = Val(DNoParen)
    /\ books_metadata[2].publisher_date = Val(DNotADate)
    /\ IsNull(content["processed_metadata.csv"][1].published_date)
    /\ IsNull(content["processed_metadata.csv"][2].published_date)

\* C7: no row of a derived table has a null year, and every derived table is
\* what it would be had the rows with a null published_date not been there.
C7_NullDateExcluded ==
    pc = "done" =>
        LET pm == content["processed_metadata.csv"]
            stored == Stored
            without == Derived(SelectSeq(pm, HasDate), books_reviews)
        IN \A k \in Tables :
            /\ \A x \in stored[k] : ~IsNull(x.year)
            /\ stored[k] = without[k]

\* a dated item A and an undated item B: only A is counted, under 2020
C7_Witness ==
    /\ pc = "done"
    /\ Len(processed_metadata) = 2
    /\ processed_metadata[1].parent_asin = Val("A")
    /\ HasDate(processed_metadata[1]) /\ OwnYear(processed_metadata[1]) = 2020
    /\ processed_metadata[2].parent_asin = Val("B")
    /\ ~HasDate(processed_metadata[2])
    /\ Len(content["scorecard_data.csv"]) = 1
    /\ content["scorecard_data.csv"][1].year = Val(2020)
    /\ content["scorecard_data.csv"][1].total_books = 1

\* row i of pm matches no review
Unreviewed(pm, r, i) ==
    /\ ~IsNull(pm[i].parent_asin)
    /\ \A j \in 1..Len(r) : r[j].parent_asin # pm[i].parent_asin

\* C8: a dated item without a matching review is counted in the book count of
\* its group in the scorecard, genre, format and top publishers tables; a year
\* whose only item has no review has total_books = 1, total_reviews = 0 and a
\* null total_sales.
C8_UnreviewedItemsCounted ==
    pc = "done" =>
        LET pm == content["processed_metadata.csv"]
            r == books_reviews
        IN \A i \in {k \in 1..Len(pm) : HasDate(pm[k]) /\ Unreviewed(pm, r, k)} :
            LET me == pm[i]
                SameYear(o) == HasDate(o) /\ OwnYear(o) = OwnYear(me)
                SameGenre(o) ==
                    SameYear(o) /\ o.category_level_3_detail = me.category_level_3_detail
                SameFormat(o) ==
                    /\ SameGenre(o)
                    /\ ~IsNull(o.price_numeric)
                    /\ (IF IsNull(o.format) THEN Val("Kindle") ELSE o.format)
                          = (IF IsNull(me.format) THEN Val("Kindle") ELSE me.format)
                Priced(o) == SameYear(o) /\ ~IsNull(o.price_numeric)
                SamePublisher(o) == SameGenre(o) /\ o.publisher = me.publisher
            IN /\ \E x \in Stored.scorecard :
                    /\ x.year = Val(OwnYear(me))
                    /\ x.total_books = Cardinality(Items(pm, SameYear))
                    /\ x.total_books >= 1
                    /\ Items(pm, SameYear) = {me.parent_asin}
                          => x.total_books = 1 /\ x.total_reviews = 0
                             /\ IsNull(x.total_sales)
               /\ ~IsNull(me.category_level_3_detail) =>
                    \E x \in Stored.genre :
                        /\ x.year = Val(OwnYear(me))
                        /\ x.genre = me.category_level_3_detail
                        /\ x.book_count = Cardinality(Items(pm, SameGenre))
                        /\ x.book_count >= 1
               /\ ~IsNull(me.price_numeric) =>
                    \E x \in Stored.format :
                        /\ IsRollup(x)
                        /\ x.year = Val(OwnYear(me))
                        /\ x.book_count = Cardinality(Items(pm, Priced))
                        /\ x.book_count >= 1
               /\ ~IsNull(me.price_numeric) /\ ~IsNull(me.category_level_3_detail) =>
                    \E x \in Stored.format :
                        /\ x.book_format
                              = (IF IsNull(me.format) THEN Val("Kindle") ELSE me.format)
                        /\ x.year = Val(OwnYear(me))
                        /\ x.genre = me.category_level_3_detail
                        /\ x.book_count = Cardinality(Items(pm, SameFormat))
                        /\ x.book_count >= 1
               /\ ~IsNull(me.publisher) /\ ~IsNull(me.category_level_3_detail) =>
                    \E x \in Stored.top_publishers :
                        /\ x.year = Val(OwnYear(me))
                        /\ x.publisher_name = me.publisher
                        /\ x.genre = me.category_level_3_detail
                        /\ x.book_count = Cardinality(Items(pm, SamePublisher))
                        /\ x.book_count >= 1

\* the only item of 2021 has no review while an item of 2020 has one
C8_Witness ==
    /\ pc = "done"
    /\ Len(processed_metadata) = 2
    /\ Len(books_reviews) = 1
    /\ books_reviews[1].parent_asin = Val("A")
    /\ processed_metadata[1].parent_asin = Val("A")
    /\ HasDate(processed_metadata[1]) /\ OwnYear(processed_metadata[1]) = 2020
    /\ processed_metadata[2].parent_asin = Val("B")
    /\ HasDate(processed_metadata[2]) /\ OwnYear(processed_metadata[2]) = 2021
    /\ \E x \in Stored.scorecard :
          x.year = Val(2021) /\ x.total_books = 1 /\ x.total_reviews = 0
          /\ IsNull(x.total_sales)

\* C9: in every derived table the rows of a year are what the rows of
\* processed_metadata dated in that year alone give, and no row carries a year
\* in which no row of processed_metadata is dated.
C9_YearConsistency ==
    pc = "done" =>
        LET pm == content["processed_metadata.csv"]
            years == {OwnYear(pm[i]) : i \in {k \in 1..Len(pm) : HasDate(pm[k])}}
            stored == Stored
        IN /\ \A k \in Tables : \A x \in stored[k] : \E y \in years : x.year = Val(y)
           /\ \A y \in years :
                LET InYear(o) == HasDate(o) /\ OwnYear(o) = y
                    alone == Derived(SelectSeq(pm, InYear), books_reviews)
                IN \A k \in Tables : {x \in stored[k] : x.year = Val(y)} = alone[k]

\* two items dated in different years
C9_Witness ==
    /\ pc = "done"
    /\ Len(processed_metadata) = 2
    /\ HasDate(processed_metadata[1]) /\ OwnYear(processed_metadata[1]) = 2021
    /\ HasDate(processed_metadata[2]) /\ OwnYear(processed_metadata[2]) = 2020
    /\ Len(content["scorecard_data.csv"]) = 2
    /\ Len(content["top_publishers_data.csv"]) >= 1

\* the sum of the genre table's book_count over a year is at most the
\* scorecard's total_books of that year
GenreWithinScorecard ==
    \A s \in Stored.scorecard :
        LET g == {x \in Stored.genre : x.year = s.year}
        IN SumF([x \in g |-> x.book_count], g) <= s.total_books

\* no parent_asin is dated in one year under two different genres
OneGenrePerItem(pm) ==
    \A i, j \in 1..Len(pm) :
        (/\ HasDate(pm[i]) /\ HasDate(pm[j])
         /\ OwnYear(pm[i]) = OwnYear(pm[j])
         /\ pm[i].parent_asin = pm[j].parent_asin
         /\ ~IsNull(pm[i].category_level_3_detail)
         /\ ~IsNull(pm[j].category_level_3_detail))
        => pm[i].category_level_3_detail = pm[j].category_level_3_detail

\* C10 as stated: for every year the genre table's book counts sum to at most
\* the scorecard's total_books, whatever the input.
C10_GenreWithinScorecardAlways == pc = "done" => GenreWithinScorecard

\* C10 as amended: the bound holds on every input in which no parent_asin is
\* dated in one year under two different genres.
C10_GenreWithinScorecardOneGenre ==
    (pc = "done" /\ OneGenrePerItem(content["processed_metadata.csv"]))
        => GenreWithinScorecard

\* two items of 2020 in two genres, one of them reviewed twice
C10_Witness ==
    /\ pc = "done"
    /\ OneGenrePerItem(content["processed_metadata.csv"])
    /\ Len(books_reviews) = 2
    /\ books_reviews[1].parent_asin = books_reviews[2].parent_asin
    /\ Len(content["genre_data.csv"]) = 2
    /\ content["genre_data.csv"][1].year = content["genre_data.csv"][2].year
    /\ \E s \in Stored.scorecard : s.total_books = 2

\* the steps of the script that come after the acquisition
AfterAcquisition ==
    {"load", "processed", "scorecard", "genre", "top_books", "top_authors", "format",
     "top_publishers", "done"}

AggregateFiles == OutputFiles \ {"processed_metadata.csv"}

\* the files a step adds to the record of the writes
WrittenByStep == Range(SubSeq(writes', Len(writes) + 1, Len(writes')))

\* C15: no step of a run writes (downloads again, overwrites) an input file
\* that exists when the step begins, also when only one of metadata.csv and
\* reviews.csv exists.
C15_ExistingInputKept ==
    [][(pc \in Range(Steps)) =>
           (\A f \in InputFiles \cap exists : f \notin WrittenByStep)]_vars

\* C16: from the loading of the inputs on, and whenever the running script
\* has written an output file, the three input files exist; no aggregate file
\* is written before processed_metadata.csv.
C16_StageOrdering ==
    /\ pc \in AfterAcquisition => InputFiles \subseteq exists
    /\ (pc # "idle" /\ WrittenOutputs # {}) => InputFiles \subseteq exists
    /\ \A k \in 1..Len(writes) :
          writes[k] \in AggregateFiles =>
              \E j \in 1..(k - 1) : writes[j] = "processed_metadata.csv"
    /\ pc \in AfterAcquisition \ {"load", "processed"} =>
              "processed_metadata.csv" \in WrittenOutputs

C16_Witness ==
    /\ pc = "scorecard"
    /\ writes = <<metadata_path, reviews_path, clean_reviews_path, "processed_metadata.csv">>

SuccessMessages ==
    {"Preprocessing complete. Refresh the page.", "Data processing completed successfully!",
     "Preprocessing complete. Run streamlit"}

\* C17: a failed run is not continued and not started again by the program
\* (it writes nothing more and only returns to its caller), and main.py,
\* having got CalledProcessError, shows none of its success messages.
C17_FailureAborts ==
    [][(pc = "failed") =>
         (/\ pc' \in {"failed", "idle"}
          /\ runs' = runs
          /\ writes' = writes
          /\ exists' = exists
          /\ content' = content
          /\ ~fresh'
          /\ (main_pc # "none") =>
                (/\ shown' \cap SuccessMessages = {}
                 /\ (pc' = "idle") => ("CalledProcessError" \in shown')))]_vars

C17_Witness == "CalledProcessError" \in shown /\ pc = "idle" /\ WrittenOutputs # {}

\* C18: no page of the presentation layer raises on a file that is absent
\* (it warns and offers the run in its place).
C18_AbsentFileWarned == "FileNotFoundError" \notin shown

IsOutput(f) == f \in OutputFiles

\* C20: a successful run has written each of the seven output files exactly
\* once, each holds the whole result of its own query, and no step of a run
\* changes an output file that the run has already written.
C20_WriteOnce ==
    /\ [](pc = "done" =>
            /\ SelectSeq(writes, IsOutput) = OutputOrder
            /\ Range(content["processed_metadata.csv"]) = Range(processed_metadata)
            /\ \A t \in Tables :
                  Stored[t] = Derived(processed_metadata, books_reviews)[t])
    /\ [][(pc \in Range(Steps)) =>
            (\A f \in WrittenOutputs : content'[f] = content[f] /\ f \notin WrittenByStep)]_vars

C20_Witness ==
    /\ pc = "done"
    /\ ~rerun
    /\ Stored.scorecard # {}
    /\ Stored.format # {}

\* ------------------------------------------------------------------------
\* Properties of the measures and of the top tables (checked under SpecTop)
\* ------------------------------------------------------------------------
\* the rows of pm that belong to the group of row x of table t
Members(t, x, pm) ==
    {i \in 1..Len(pm) :
        /\ HasDate(pm[i])
        /\ Val(OwnYear(pm[i])) = x.year
        /\ CASE t = "scorecard" -> TRUE
             [] t = "genre" -> pm[i].category_level_3_detail = x.genre
             [] t = "top_books" ->
                    /\ pm[i].title = x.title
                    /\ pm[i].author_name = x.author_name
                    /\ pm[i].category_level_3_detail = x.genre
             [] t = "top_authors" -> pm[i].author_name = x.author_name
             [] t = "format" ->
                    /\ ~IsNull(pm[i].price_numeric)
                    /\ \/ IsRollup(x)
                       \/ /\ pm[i].category_level_3_detail = x.genre
                          /\ (IF IsNull(pm[i].format) THEN Val("Kindle") ELSE pm[i].format)
                                = x.book_format
             [] t = "top_publishers" ->
                    /\ pm[i].publisher = x.publisher_name
                    /\ pm[i].category_level_3_detail = x.genre}

\* the (item, review) pairs of a group: the review's parent_asin is the item's
MatchedPairs(t, x, pm, r) ==
    {p \in Members(t, x, pm) \X (1..Len(r)) : r[p[2]].parent_asin = pm[p[1]].parent_asin}

ReviewCount(t, x) == IF t = "genre" THEN x.review_count ELSE x.total_reviews

\* C11: in every derived table the total_sales of a row (a null read as 0) is
\* the sum of rating * price_numeric over the matched (item, review) pairs of
\* its group, a pair without price adding nothing, and its review count is the
\* number of those pairs.
C11_SalesProxy ==
    pc = "done" =>
        LET pm == content["processed_metadata.csv"]
            r == books_reviews
        IN \A t \in Tables : \A x \in Stored[t] :
            LET P == MatchedPairs(t, x, pm, r)
            IN /\ ReviewCount(t, x) = Cardinality(P)
               /\ OrZero(x.total_sales)
                    = SumF([p \in P |-> OrZero(r[p[2]].rating)
                                          * OrZero(pm[p[1]].price_numeric)], P)

\* two reviews of different rating on an item of price 2, and a row without price
C11_Witness ==
    /\ pc = "done"
    /\ Len(books_reviews) = 2
    /\ books_reviews[1].rating # books_reviews[2].rating
    /\ \E i \in 1..Len(processed_metadata) :
          HasDate(processed_metadata[i]) /\ IsNull(processed_metadata[i].price_numeric)
    /\ \E x \in Stored.top_authors : x.total_reviews = 2 /\ x.total_sales = Val(16)

\* the columns of a row that hold a distinct item count, a review count, the
\* sales proxy
CountColumns(x) == DOMAIN x \cap {"total_books", "book_count"}

ReviewColumns(x) == DOMAIN x \cap {"total_reviews", "review_count"}

SalesColumns(x) == DOMAIN x \cap {"total_sales"}

\* C12 as stated: every row of each of the six derived tables carries a
\* distinct item count, a review count and the sales proxy.
C12_AllThreeMeasures ==
    pc = "done" =>
        \A t \in Tables : \A x \in Stored[t] :
            CountColumns(x) # {} /\ ReviewColumns(x) # {} /\ SalesColumns(x) # {}

\* C12 as amended: every row of the six tables carries a review count and the
\* sales proxy; the rows of the scorecard, genre, format and top publishers
\* tables carry the distinct item count of their group as well, the rows of
\* the top books and top authors tables carry none.
C12_MeasuresPerTable ==
    pc = "done" =>
        LET pm == content["processed_metadata.csv"]
        IN \A t \in Tables : \A x \in Stored[t] :
            /\ Cardinality(ReviewColumns(x)) = 1
            /\ SalesColumns(x) # {}
            /\ IF t \in {"top_books", "top_authors"} THEN CountColumns(x) = {}
               ELSE /\ CountColumns(x) = {IF t = "scorecard" THEN "total_books"
                                          ELSE "book_count"}
                    /\ \A c \in CountColumns(x) :
                          x[c] = Cardinality({pm[i].parent_asin : i \in Members(t, x, pm)})

\* every table has a row
C12_Witness ==
    /\ pc = "done"
    /\ \A t \in Tables : Stored[t] # {}
    /\ \E x \in Stored.top_publishers : x.book_count = 2

\* the grouping keys of the three top tables, of a row of processed_metadata
\* and of a row of the table
TopKeyOf(t, o) ==
    CASE t = "top_books" ->
            <<Val(OwnYear(o)), o.title, o.author_name, o.category_level_3_detail>>
      [] t = "top_authors" -> <<Val(OwnYear(o)), o.author_name>>
      [] t = "top_publishers" -> <<Val(OwnYear(o)), o.publisher, o.category_level_3_detail>>

TopKeyIn(t, x) ==
    CASE t = "top_books" -> <<x.year, x.title, x.author_name, x.genre>>
      [] t = "top_authors" -> <<x.year, x.author_name>>
      [] t = "top_publishers" -> <<x.year, x.publisher_name, x.genre>>

TopTables == {"top_books", "top_authors", "top_publishers"}

TopFile(t) ==
    CASE t = "top_books" -> content["top_books_data.csv"]
      [] t = "top_authors" -> content["top_authors_data.csv"]
      [] t = "top_publishers" -> content["top_publishers_data.csv"]

\* the file of table t holds exactly one row for each of the keys K
OneRowPerKey(t, K) ==
    /\ {TopKeyIn(t, x) : x \in Range(TopFile(t))} = K
    /\ Len(TopFile(t)) = Cardinality(K)

DatedRows(pm) == {pm[i] : i \in {k \in 1..Len(pm) : HasDate(pm[k])}}

\* C13 as stated: each of the three top tables holds exactly one row for
\* every distinct grouping key among the dated rows of processed_metadata.
C13_OneRowPerDatedKey ==
    pc = "done" =>
        \A t \in TopTables :
            OneRowPerKey(t, {TopKeyOf(t, o) : o \in DatedRows(content["processed_metadata.csv"])})

\* the rows the WHERE clause of a top table keeps
TopKept(t, o) ==
    CASE t = "top_books" -> TRUE
      [] t = "top_authors" -> ~IsNull(o.author_name)
      [] t = "top_publishers" -> ~IsNull(o.publisher) /\ ~IsNull(o.category_level_3_detail)

\* C13 as amended: each of the three top tables holds exactly one row for
\* every distinct grouping key among the dated rows that its WHERE clause
\* keeps (top authors: author_name not null; top publishers: publisher and
\* genre not null; top books: every dated row), and no other row.
C13_OneRowPerKeptKey ==
    pc = "done" =>
        \A t \in TopTables :
            OneRowPerKey(t, {TopKeyOf(t, o) :
                                o \in {d \in DatedRows(content["processed_metadata.csv"]) :
                                          TopKept(t, d)}})

\* a dated row without author and publisher: two rows of top books, one row
\* of top authors and of top publishers
C13_Witness ==
    /\ pc = "done"
    /\ \E o \in DatedRows(processed_metadata) : IsNull(o.author_name) /\ IsNull(o.publisher)
    /\ Len(content["top_books_data.csv"]) = 2
    /\ Len(content["top_authors_data.csv"]) = 1
    /\ Len(content["top_publishers_data.csv"]) = 1

\* rows a and b, b next after a, are in descending order of total_sales
SalesDescending(a, b) ==
    (~IsNull(a.total_sales) /\ ~IsNull(b.total_sales)) => a.total_sales[1] >= b.total_sales[1]

\* C14 as stated: in each of the three top files, of any two consecutive rows
\* the earlier has a total_sales greater than or equal to the later's.
C14_DescendingSales ==
    pc = "done" =>
        \A t \in TopTables : \A i \in 1..(Len(TopFile(t)) - 1) :
            SalesDescending(TopFile(t)[i], TopFile(t)[i + 1])

\* C14 as amended: the rows of each of the three top files are in ascending
\* order of year, and within one year in descending order of total_sales,
\* the rows with a null total_sales after the others.
C14_YearThenDescendingSales ==
    pc = "done" =>
        \A t \in TopTables : \A i \in 1..(Len(TopFile(t)) - 1) :
            LET a == TopFile(t)[i]
                b == TopFile(t)[i + 1]
            IN /\ a.year[1] <= b.year[1]
               /\ a.year = b.year =>
                    /\ SalesDescending(a, b)
                    /\ IsNull(a.total_sales) => IsNull(b.total_sales)

\* top books: two rows of one year with different sales; top authors: two
\* rows of one year
C14_Witness ==
    /\ pc = "done"
    /\ LET f == content["top_books_data.csv"]
       IN /\ Len(f) = 2
          /\ f[1].year = f[2].year
          /\ ~IsNull(f[2].total_sales)
          /\ f[1].total_sales[1] > f[2].total_sales[1]
    /\ LET f == content["top_authors_data.csv"]
       IN /\ Len(f) = 2
          /\ f[1].year = f[2].year
          /\ ~IsNull(f[1].total_sales)

ParenthesizedDates(s) ==
    {[year |-> YearNumber[s[k + 6]], month |-> MonthNumber[s[k + 1]],
      day |-> DayNumber[s[k + 3]]] :
        k \in {i \in 1..(Len(s) - 7) :
                 /\ s[i] = "("
                 /\ s[i + 1] \in DOMAIN MonthNumber
                 /\ s[i + 2] = " "
                 /\ s[i + 3] \in DOMAIN DayNumber
                 /\ s[i + 4] = ","
                 /\ s[i + 5] = " "
                 /\ s[i + 6] \in DOMAIN YearNumber
                 /\ s[i + 7] = ")"
                 /\ DayNumber[s[i + 3]]
                       <= DaysInMonth(MonthNumber[s[i + 1]], YearNumber[s[i + 6]])}}

\* C21: a row whose publisher_date holds a well-formed 'Month Day, Year' date
\* in parentheses has that date as its published_date, whatever parenthesized
\* text comes before the date and whatever text follows its ')'.
C21_ParenthesizedDateExtracted ==
    pc = "done" =>
        \A i \in 1..Len(books_metadata) :
            ~IsNull(books_metadata[i].publisher_date) =>
                \A d \in ParenthesizedDates(books_metadata[i].publisher_date[1]) :
                    content["processed_metadata.csv"][i].published_date = Val(d)

\* the well-formed parenthesized date the text s ends with, if it ends with one
EndDates(s) ==
    IF Len(s) < 8 THEN {} ELSE ParenthesizedDates(SubSeq(s, Len(s) - 7, Len(s)))

\* the text s holds a well-formed parenthesized date followed by text that
\* has no '(' and does not end with ')'
DateThenText(s) ==
    \E k \in 1..(Len(s) - 8) :
        /\ ParenthesizedDates(SubSeq(s, k, k + 7)) # {}
        /\ \A j \in (k + 8)..Len(s) : s[j] # "("
        /\ s[Len(s)] # ")"

\* C21 as amended: a publisher_date that ends with a well-formed parenthesized
\* date gives that date, also after other parenthesized text; one in which
\* text without '(' follows the date's ')' gives a null published_date.
C21_LastFragmentExtracted ==
    pc = "done" =>
        \A i \in 1..Len(books_metadata) :
            ~IsNull(books_metadata[i].publisher_date) =>
                LET s == books_metadata[i].publisher_date[1]
                    got == content["processed_metadata.csv"][i].published_date
                IN /\ \A d \in EndDates(s) : got = Val(d)
                   /\ DateThenText(s) => IsNull(got)

\* a date after other parenthesized text, and a date followed by text
C21_Witness ==
    /\ pc = "done"
    /\ Len(books_metadata) = 2
    /\ books_metadata[1].publisher_date = Val(D2021)
    /\ processed_metadata[1].published_date = Val([year |-> 2021, month |-> 3, day |-> 1])
    /\ books_metadata[2].publisher_date = Val(DTrailing)
    /\ IsNull(processed_metadata[2].published_date)

\* ------------------------------------------------------------------------
\* The gate of main.py after a run (checked under Spec)
\* ------------------------------------------------------------------------
\* a step in which main.py (button or __main__ block) starts the pipeline
MainStartsRun == runs' = runs + 1 /\ caller' \in {"button", "cli"}

\* C22: when a run has completed, the four files of REQUIRED_OUTPUTS exist and
\* stay until a file is deleted; while they all exist main.py starts no run.
C22_GateClosesAfterRun ==
    /\ [](pc = "done" => REQUIRED_OUTPUTS \subseteq exists)
    /\ [](fresh => REQUIRED_OUTPUTS \subseteq exists)
    /\ [][(REQUIRED_OUTPUTS \subseteq exists) => ~MainStartsRun]_vars

\* main.py's button has run the pipeline to its end, the page is shown again
\* without the warning
C22_Witness ==
    /\ fresh
    /\ pc = "idle"
    /\ caller = "button"
    /\ main_pc = "none"
    /\ shown = {"files"}

\* ------------------------------------------------------------------------
\* The Top 10 Authors chart of dash1.py (checked under SpecDash)
\* ------------------------------------------------------------------------
\* year y is within the range the slider gave
InRange(y) == dash1.year_range[1] <= y[1] /\ y[1] <= dash1.year_range[2]

\* the authors with a top-books row of the selected genre within the range
\* and a top-authors row within the range
Eligible ==
    {a \in {x.author_name : x \in Range(content["top_authors_data.csv"])} :
        /\ \E x \in Range(content["top_authors_data.csv"]) :
              x.author_name = a /\ InRange(x.year)
        /\ \E b \in Range(content["top_books_data.csv"]) :
              /\ b.author_name = a
              /\ b.genre = Val(dash1.selected_genre)
              /\ InRange(b.year)}

\* the measure of author a summed over the top-authors rows within the range
SummedMeasure(a) ==
    LET rows == {x \in Range(content["top_authors_data.csv"]) :
                    x.author_name = a /\ InRange(x.year)}
    IN SumF([x \in rows |-> IF dash1.measure = "Reviews" THEN x.total_reviews
                            ELSE OrZero(x.total_sales)], rows)

ShownAuthors == {dash1.top_authors[i][1] : i \in 1..Len(dash1.top_authors)}

\* C23: with a genre selected, every author of the Top 10 Authors chart has a
\* top-books row of that genre within the year range, the chart has at most
\* 10 authors, and no eligible author left out has a summed measure greater
\* than that of an author shown.
C23_GenreFilteredTopAuthors ==
    (dash1.drawn /\ dash1.selected_genre # "All Genres") =>
        /\ ShownAuthors \subseteq Eligible
        /\ Len(dash1.top_authors) <= 10
        /\ Cardinality(ShownAuthors) = Len(dash1.top_authors)
        /\ \A i \in 1..Len(dash1.top_authors) :
              dash1.top_authors[i][2] = SummedMeasure(dash1.top_authors[i][1])
        /\ \A e \in Eligible \ ShownAuthors : \A a \in ShownAuthors :
              SummedMeasure(e) <= SummedMeasure(a)
        /\ Eligible \ ShownAuthors # {} => Len(dash1.top_authors) = 10

\* more than ten authors are eligible, and one with a measure below that of
\* an author shown is left out
C23_Witness ==
    /\ dash1.drawn
    /\ dash1.selected_genre = "g1"
    /\ dash1.measure = "Sales"
    /\ Len(dash1.top_authors) = 10
    /\ Cardinality(Eligible) > 10
    /\ \E e \in Eligible \ ShownAuthors : \E a \in ShownAuthors :
          SummedMeasure(e) < SummedMeasure(a)

====
